---- MODULE Spec2Model ----
(***************************************************************************)
(* A model of build.py, the dashboard build script: the two fetchers with  *)
(* their try/except fallbacks, the two-pass CSV row resolution, the time   *)
(* and section arithmetic, the renderers and the build_html pipeline.      *)
(*                                                                         *)
(* A Python str is a sequence of one-character strings, so that strip(),   *)
(* lower(), upper(), slicing and f-string formatting are computed and not  *)
(* assumed.  A datetime is the number of minutes since 00:00 UTC of the    *)
(* day of the run (it may be negative or exceed a day); .hour and .minute  *)
(* are taken modulo one day.                                               *)
(***************************************************************************)
EXTENDS Integers, Sequences, FiniteSets, TLC

VARIABLES
    pc,            \* position of the run inside build_html and its callees
    exc,           \* the exception in flight inside a try block, or NoExc
    all_rows,      \* fetch_tasks_from_sheet: list(reader)
    tasks,         \* fetch_tasks_from_sheet: category -> list of task objects (references)
    main_tasks,    \* fetch_tasks_from_sheet: task name -> task object (reference)
    heap,          \* the task objects, by reference; a reference is the index of the source row
    idx,           \* position of the running for loop in all_rows
    bh_tasks,      \* build_html: tasks
    weather,       \* build_html: weather
    wall_clock,    \* the last value datetime.now(timezone.utc) returned, in minutes
    ticks,         \* how many minutes the wall clock advanced during the run
    zone_time,     \* build_html: central_time, eastern_time, pacific_time, india_time
    zone_str,      \* build_html: central_str, eastern_str, pacific_str, india_str
    section,       \* build_html: (section_num, section_text)
    page,          \* build_html: the assembled document
    files,         \* the file system: the writes made to index.html, in order
    log            \* the console: the lines printed, in order

vars == <<pc, exc, all_rows, tasks, main_tasks, heap, idx, bh_tasks, weather,
          wall_clock, ticks, zone_time, zone_str, section, page, files, log>>

----------------------------------------------------------------------------
(* Bounds of the model *)

MaxRows == 2
MaxTicks == 1

----------------------------------------------------------------------------
(* Configuration *)

Zones == <<"Central", "Eastern", "Pacific", "India">>

\* offsets in tenths of an hour, so that 5.5 is the integer 55
TIMEZONES == [Central |-> -60, Eastern |-> -50, Pacific |-> -80, India |-> 55]

CATEGORIES == << <<"v","d","p","a","m">>, <<"v","d","l">>,
                 <<"p","e","r","s","o","n","a","l">> >>

DAY_START == 6
DAY_END == 18
TOTAL_SECTIONS == 12

TaskTextCap == 28
SubTextCap == 24

----------------------------------------------------------------------------
(* Python values *)

NoneValue == <<"None">>      \* None: no character string equals it
NoExc == "none"

Range(s) == {s[k] : k \in 1..Len(s)}

UpperLetters == <<"A","B","C","D","E","F","G","H","I","J","K","L","M",
                  "N","O","P","Q","R","S","T","U","V","W","X","Y","Z">>
LowerLetters == <<"a","b","c","d","e","f","g","h","i","j","k","l","m",
                  "n","o","p","q","r","s","t","u","v","w","x","y","z">>

MapChar(c, from, to) ==
    IF \E k \in 1..Len(from) : from[k] = c
    THEN to[CHOOSE k \in 1..Len(from) : from[k] = c]
    ELSE c

Lower(s) == [k \in 1..Len(s) |-> MapChar(s[k], UpperLetters, LowerLetters)]
Upper(s) == [k \in 1..Len(s) |-> MapChar(s[k], LowerLetters, UpperLetters)]

IsSpace(c) == c \in {" ", "\t", "\n", "\r"}

RECURSIVE LStrip(_)
LStrip(s) == IF s # <<>> /\ IsSpace(Head(s)) THEN LStrip(Tail(s)) ELSE s

RECURSIVE RStrip(_)
RStrip(s) ==
    IF s # <<>> /\ IsSpace(s[Len(s)]) THEN RStrip(SubSeq(s, 1, Len(s) - 1)) ELSE s

Strip(s) == RStrip(LStrip(s))

\* s[:n]
Prefix(s, n) == SubSeq(s, 1, IF Len(s) < n THEN Len(s) ELSE n)

DigitChars == <<"0","1","2","3","4","5","6","7","8","9">>

\* str(n) for n >= 0
RECURSIVE Digits(_)
Digits(n) ==
    IF n < 10 THEN <<DigitChars[n + 1]>>
    ELSE Digits(n \div 10) \o <<DigitChars[(n % 10) + 1]>>

\* f"{n:02d}" for n >= 0
Pad2(n) == IF n < 10 THEN <<"0">> \o Digits(n) ELSE Digits(n)

\* int(x) of the quotient n/d, d > 0: truncation towards zero
IntTrunc(n, d) == IF n >= 0 THEN n \div d ELSE -((-n) \div d)

\* dict.get(key, default)
Get(d, key, default) == IF key \in DOMAIN d THEN d[key] ELSE default

----------------------------------------------------------------------------
(* The inputs *)

CategoryInputs == { <<"v","d","p","a","m">>, <<" ","V","d","l"," ">>, <<"x">> }
TaskInputs == { <<"A">>, <<"a"," ">>, <<" ">> }
ParentInputs == { <<>>, <<" ">>, <<"A"," ">> }
DoneInputs == { <<"t","r","u","e">>, <<"F","A","L","S","E">> }

FullRows ==
    { [category |-> c, task |-> t, parent |-> p, done |-> d] :
        c \in CategoryInputs, t \in TaskInputs, p \in ParentInputs, d \in DoneInputs }

\* csv.DictReader gives None to the trailing columns a short line lacks
ShortRows ==
    { [category |-> <<"v","d","l">>, task |-> <<"A">>, parent |-> <<>>, done |-> NoneValue],
      [category |-> <<"v","d","l">>, task |-> <<"B">>, parent |-> NoneValue, done |-> NoneValue],
      [category |-> <<"v","d","l">>, task |-> NoneValue, parent |-> NoneValue, done |-> NoneValue] }

Rows == FullRows \cup ShortRows

RowLists == UNION { [1..n -> Rows] : n \in 0..MaxRows }

FetchErrors == {"URLError", "timeout", "UnicodeDecodeError"}
ParseErrors == {"csv.Error"}

\* what wttr.in answers
WeatherBodies == { <<"+","7","2","F"," ","S","u","n","n","y","\n">> }

\* the times of day at which the run first reads the clock
ClockSamples == {0, 1079}

----------------------------------------------------------------------------
(* fetch_tasks_from_sheet *)

EmptyDict == [k \in {} |-> <<>>]

\* d[key] = value
Put(d, key, value) ==
    [k \in (DOMAIN d) \cup {key} |-> IF k = key THEN value ELSE d[k]]

\* {cat: [] for cat in CATEGORIES}
EmptyBuckets == [c \in Range(CATEGORIES) |-> <<>>]

\* the classes "except Exception" catches, among those the fetchers can raise
ExceptionClasses ==
    {"URLError", "timeout", "UnicodeDecodeError", "csv.Error", "AttributeError"}

\* a handler for the network errors alone
CatchesNetworkErrors(e) == e \in {"URLError", "timeout"}

Catches(e) == e \in ExceptionClasses

\* the fields of a row as the loops read them
RawCategory(row) == Get(row, "category", <<>>)
RawTask(row) == Get(row, "task", <<>>)
RawParent(row) == Get(row, "parent", <<>>)
RawDone(row) == Get(row, "done", <<"F","A","L","S","E">>)

\* the category without lower()
CategoryNotLowered(row) == Strip(RawCategory(row))

\* the parent without strip()
ParentNotStripped(row) == RawParent(row)

CategoryOf(row) == Lower(Strip(RawCategory(row)))
TaskNameOf(row) == Strip(RawTask(row))
ParentOf(row) == Strip(RawParent(row))
DoneOf(row) == Upper(Strip(RawDone(row))) = <<"T","R","U","E">>

\* None has no strip(): the first pass raises AttributeError on such a row
FirstPassRaises(row) ==
    \/ RawCategory(row) = NoneValue
    \/ RawTask(row) = NoneValue
    \/ RawParent(row) = NoneValue
    \/ RawDone(row) = NoneValue

\* "if not task_name: continue"
FirstPassSkips(task_name) == task_name = <<>>

\* "if not parent:  # Main task"
IsMainTask(parent) == parent = <<>>

\* tasks.setdefault(category, []).append(task_obj)
AppendToBucketAddingKey(t, category, ref) ==
    Put(t, category, Append(Get(t, category, <<>>), ref))

\* "if category in tasks: tasks[category].append(task_obj)"
AppendToBucket(t, category, ref) ==
    IF category \in DOMAIN t
    THEN [t EXCEPT ![category] = Append(@, ref)]
    ELSE t

\* "if parent and parent in main_tasks"
Attaches(parent, mt) == parent # <<>> /\ parent \in DOMAIN mt

\* the value "return tasks" hands over: the buckets with their task objects
ReturnValue(t, h) == [c \in DOMAIN t |-> [k \in 1..Len(t[c]) |-> h[t[c][k]]]]

\* "return tasks" in the except clause: the buckets as the error left them
PartialTasks ==
    IF DOMAIN tasks = {} THEN EmptyBuckets
    ELSE [c \in DOMAIN tasks |-> [k \in 1..Len(tasks[c]) |-> heap[tasks[c][k]]]]

\* the value the except clause returns
FallbackTasks == EmptyBuckets

\* the frame of fetch_tasks_from_sheet is gone
FrameDropped ==
    /\ all_rows' = <<>>
    /\ tasks' = EmptyDict
    /\ main_tasks' = EmptyDict
    /\ heap' = EmptyDict
    /\ idx' = 0
    /\ exc' = NoExc

BuildVarsUnchanged ==
    UNCHANGED <<weather, wall_clock, ticks, zone_time, zone_str, section, page, files>>

\* build_html: print("Fetching tasks from Google Sheets...")
PrintFetchingTasks ==
    /\ pc = "start"
    /\ log' = Append(log, [text |-> "Fetching tasks from Google Sheets...", arg |-> <<>>])
    /\ pc' = "tasks_request"
    /\ UNCHANGED <<exc, all_rows, tasks, main_tasks, heap, idx, bh_tasks>>
    /\ BuildVarsUnchanged

\* urlopen, read, decode, DictReader, the empty buckets, list(reader)
RequestTasks ==
    /\ pc = "tasks_request"
    /\ \/ /\ \E e \in FetchErrors : exc' = e
          /\ pc' = "tasks_except"
          /\ UNCHANGED <<all_rows, tasks, idx>>
       \/ /\ \E e \in ParseErrors : exc' = e
          /\ tasks' = EmptyBuckets
          /\ pc' = "tasks_except"
          /\ UNCHANGED <<all_rows, idx>>
       \/ /\ \E rows \in RowLists : all_rows' = rows
          /\ tasks' = EmptyBuckets
          /\ idx' = 1
          /\ pc' = "first_pass"
          /\ UNCHANGED exc
    /\ UNCHANGED <<main_tasks, heap, bh_tasks, log>>
    /\ BuildVarsUnchanged

\* one iteration of "for row in all_rows" of the first pass
FirstPassRow ==
    /\ pc = "first_pass"
    /\ idx <= Len(all_rows)
    /\ LET row == all_rows[idx] IN
       IF FirstPassRaises(row)
       THEN /\ exc' = "AttributeError"
            /\ pc' = "tasks_except"
            /\ UNCHANGED <<tasks, main_tasks, heap, idx>>
       ELSE /\ IF FirstPassSkips(TaskNameOf(row)) \/ ~IsMainTask(ParentOf(row))
               THEN UNCHANGED <<tasks, main_tasks, heap>>
               ELSE /\ heap' = Put(heap, idx, [task |-> TaskNameOf(row),
                                               done |-> DoneOf(row),
                                               subtasks |-> <<>>])
                    /\ main_tasks' = Put(main_tasks, TaskNameOf(row), idx)
                    /\ tasks' = AppendToBucket(tasks, CategoryOf(row), idx)
            /\ idx' = idx + 1
            /\ UNCHANGED <<exc, pc>>
    /\ UNCHANGED <<all_rows, bh_tasks, log>>
    /\ BuildVarsUnchanged

\* the first loop is exhausted; the second begins
FirstPassEnd ==
    /\ pc = "first_pass"
    /\ idx > Len(all_rows)
    /\ idx' = 1
    /\ pc' = "second_pass"
    /\ UNCHANGED <<exc, all_rows, tasks, main_tasks, heap, bh_tasks, log>>
    /\ BuildVarsUnchanged

\* one iteration of "for row in all_rows" of the second pass
\* (its strip() calls meet no None: the first pass raised on any such row)
SecondPassRow ==
    /\ pc = "second_pass"
    /\ idx <= Len(all_rows)
    /\ LET row == all_rows[idx] IN
       IF Attaches(ParentOf(row), main_tasks)
       THEN heap' = [heap EXCEPT ![main_tasks[ParentOf(row)]].subtasks =
                        Append(@, [task |-> TaskNameOf(row), done |-> DoneOf(row)])]
       ELSE UNCHANGED heap
    /\ idx' = idx + 1
    /\ UNCHANGED <<pc, exc, all_rows, tasks, main_tasks, bh_tasks, log>>
    /\ BuildVarsUnchanged

\* the second loop is exhausted: "return tasks" is next
SecondPassEnd ==
    /\ pc = "second_pass"
    /\ idx > Len(all_rows)
    /\ pc' = "tasks_return"
    /\ UNCHANGED <<exc, all_rows, tasks, main_tasks, heap, idx, bh_tasks, log>>
    /\ BuildVarsUnchanged

\* "return tasks", received by build_html
ReturnTasks ==
    /\ pc = "tasks_return"
    /\ bh_tasks' = ReturnValue(tasks, heap)
    /\ FrameDropped
    /\ pc' = "weather_print"
    /\ UNCHANGED log
    /\ BuildVarsUnchanged

\* "except Exception as e": log and return the fallback; an exception the
\* clause does not catch leaves build_html, which has no handler
ExceptTasks ==
    /\ pc = "tasks_except"
    /\ IF Catches(exc)
       THEN /\ log' = Append(log, [text |-> "Error fetching tasks: ", arg |-> exc])
            /\ bh_tasks' = FallbackTasks
            /\ pc' = "weather_print"
       ELSE /\ pc' = "aborted"
            /\ UNCHANGED <<log, bh_tasks>>
    /\ FrameDropped
    /\ BuildVarsUnchanged

----------------------------------------------------------------------------
(* fetch_weather *)

NotAvailable == <<"N","/","A">>

FetchFrameUnchanged == UNCHANGED <<all_rows, tasks, main_tasks, heap, idx>>

\* build_html: print("Fetching weather..."), then the try block of fetch_weather
RequestWeather ==
    /\ pc = "weather_print"
    /\ log' = Append(log, [text |-> "Fetching weather...", arg |-> <<>>])
    /\ \/ /\ \E e \in FetchErrors : exc' = e
          /\ pc' = "weather_except"
          /\ UNCHANGED weather
       \/ /\ \E body \in WeatherBodies : weather' = Strip(body)
          /\ pc' = "times"
          /\ UNCHANGED exc
    /\ FetchFrameUnchanged
    /\ UNCHANGED <<bh_tasks, wall_clock, ticks, zone_time, zone_str, section, page, files>>

\* the value the except clause of fetch_weather returns
FallbackWeather == NotAvailable

\* "except Exception as e" of fetch_weather
ExceptWeather ==
    /\ pc = "weather_except"
    /\ IF Catches(exc)
       THEN /\ log' = Append(log, [text |-> "Error fetching weather: ", arg |-> exc])
            /\ weather' = FallbackWeather
            /\ pc' = "times"
       ELSE /\ pc' = "aborted"
            /\ UNCHANGED <<log, weather>>
    /\ exc' = NoExc
    /\ FetchFrameUnchanged
    /\ UNCHANGED <<bh_tasks, wall_clock, ticks, zone_time, zone_str, section, page, files>>

----------------------------------------------------------------------------
(* get_time_for_zone, format_time_short, get_section *)

\* "hours = int(offset_hours)", the offset in tenths of an hour
OffsetHours(offset) == IntTrunc(offset, 10)

\* "minutes = int((offset_hours - hours) * 60)"
OffsetMinutes(offset) == IntTrunc((offset - OffsetHours(offset) * 10) * 60, 10)

\* "utc_now + timedelta(hours=hours, minutes=minutes)"
LocalTime(utc_now, offset) == utc_now + OffsetHours(offset) * 60 + OffsetMinutes(offset)

\* dt.hour and dt.minute
HourOf(dt) == (dt % 1440) \div 60
MinuteOf(dt) == dt % 60

\* "ampm = 'AM' if hour < 12 else 'PM'"
AmPm(hour) == IF hour < 12 THEN <<"A","M">> ELSE <<"P","M">>

\* "elif hour >= 12: hour -= 12"
Hour12NoonAsZero(hour) ==
    IF hour = 0 THEN 12 ELSE IF hour >= 12 THEN hour - 12 ELSE hour

\* "if hour == 0: hour = 12 / elif hour > 12: hour -= 12"
Hour12(hour) == IF hour = 0 THEN 12 ELSE IF hour > 12 THEN hour - 12 ELSE hour

\* f"{hour}:{minute:02d}{ampm}"
format_time_short(dt) ==
    Digits(Hour12(HourOf(dt))) \o <<":">> \o Pad2(MinuteOf(dt)) \o AmPm(HourOf(dt))

BeforeDay == <<"B","e","f","o","r","e"," ","D","a","y">>
DayComplete == <<"D","a","y"," ","C","o","m","p","l","e","t","e">>

\* f"Section {section} of {TOTAL_SECTIONS}"
SectionLabel(n) ==
    <<"S","e","c","t","i","o","n"," ">> \o Digits(n) \o <<" ","o","f"," ">>
        \o Digits(TOTAL_SECTIONS)

\* "section = hour - DAY_START"
get_section_from_zero(hour) ==
    IF hour < DAY_START THEN <<0, BeforeDay>>
    ELSE IF hour >= DAY_END THEN <<TOTAL_SECTIONS, DayComplete>>
    ELSE <<hour - DAY_START, SectionLabel(hour - DAY_START)>>

get_section(hour) ==
    IF hour < DAY_START THEN <<0, BeforeDay>>
    ELSE IF hour >= DAY_END THEN <<TOTAL_SECTIONS, DayComplete>>
    ELSE <<hour - DAY_START + 1, SectionLabel(hour - DAY_START + 1)>>

----------------------------------------------------------------------------
(* render_tasks, render_progress_bar *)

\* the checkbox glyphs
Checked == "checked"
Unchecked == "unchecked"

NoTasks == <<"N","o"," ","t","a","s","k","s">>

Placeholder ==
    [class |-> "task", checkbox |-> Unchecked, done_class |-> "", text |-> NoTasks]

TaskDiv(task) ==
    [class |-> "task",
     checkbox |-> IF Get(task, "done", FALSE) THEN Checked ELSE Unchecked,
     done_class |-> IF Get(task, "done", FALSE) THEN "done" ELSE "",
     text |-> Prefix(Get(task, "task", <<>>), TaskTextCap)]

SubtaskDiv(subtask) ==
    [class |-> "task subtask",
     checkbox |-> IF Get(subtask, "done", FALSE) THEN Checked ELSE Unchecked,
     done_class |-> IF Get(subtask, "done", FALSE) THEN "done" ELSE "",
     text |-> Prefix(Get(subtask, "task", <<>>), SubTextCap)]

SubtaskDivs(subtasks) == [k \in 1..Len(subtasks) |-> SubtaskDiv(subtasks[k])]

RECURSIVE TaskDivs(_)
TaskDivs(ts) ==
    IF ts = <<>> THEN <<>>
    ELSE <<TaskDiv(Head(ts))>> \o SubtaskDivs(Get(Head(ts), "subtasks", <<>>))
             \o TaskDivs(Tail(ts))

\* the divs of a column, in order; "if not tasks" gives the placeholder
render_tasks(ts) == IF ts = <<>> THEN <<Placeholder>> ELSE TaskDivs(ts)

\* "filled" if i < section
BoxClassStrict(i, n) == IF i < n THEN "filled" ELSE "empty"

\* "filled" if i <= section else "empty", for i in range(1, TOTAL_SECTIONS + 1)
BoxClass(i, n) == IF i <= n THEN "filled" ELSE "empty"

render_progress_bar(n) == [i \in 1..TOTAL_SECTIONS |-> BoxClass(i, n)]

----------------------------------------------------------------------------
(* build_html, after the fetches *)

\* what datetime.now(timezone.utc) may return: any sampled time at the first
\* call, and afterwards the last value or one minute more
NowChoices ==
    IF wall_clock < 0 THEN ClockSamples
    ELSE {wall_clock} \cup (IF ticks < MaxTicks THEN {wall_clock + 1} ELSE {})

\* the zone the next call of get_time_for_zone is for
ZonesRead == Cardinality(DOMAIN zone_time)

\* the value get_time_for_zone returns when the clock reads utc_now
get_time_for_zone(utc_now, offset_hours) == LocalTime(utc_now, offset_hours)

\* central_time, eastern_time, pacific_time, india_time: one call each
GetTimeForZone ==
    /\ pc = "times"
    /\ \E utc_now \in NowChoices :
         /\ wall_clock' = utc_now
         /\ ticks' = IF wall_clock < 0 \/ utc_now = wall_clock THEN ticks ELSE ticks + 1
         /\ zone_time' = Put(zone_time, Zones[ZonesRead + 1],
                             get_time_for_zone(utc_now, TIMEZONES[Zones[ZonesRead + 1]]))
    /\ pc' = IF ZonesRead + 1 = Len(Zones) THEN "format" ELSE "times"
    /\ FetchFrameUnchanged
    /\ UNCHANGED <<exc, bh_tasks, weather, zone_str, section, page, files, log>>

\* the four format_time_short calls and get_section(central_time.hour)
FormatTimes ==
    /\ pc = "format"
    /\ zone_str' = [z \in DOMAIN zone_time |-> format_time_short(zone_time[z])]
    /\ section' = get_section(HourOf(zone_time["Central"]))
    /\ pc' = "summary"
    /\ FetchFrameUnchanged
    /\ UNCHANGED <<exc, bh_tasks, weather, wall_clock, ticks, zone_time, page, files, log>>

\* tasks['vdpam'], tasks['vdl'], tasks['personal'] of the summary line
SummaryRaises(t) == \E c \in Range(CATEGORIES) : c \notin DOMAIN t

\* the four summary prints; a missing key raises KeyError, which nothing catches
PrintSummary ==
    /\ pc = "summary"
    /\ IF SummaryRaises(bh_tasks)
       THEN /\ log' = log \o << [text |-> "Central/Eastern/Pacific/India: ", arg |-> zone_str],
                                [text |-> "Section: ", arg |-> section[2]],
                                [text |-> "Weather: ", arg |-> weather] >>
            /\ pc' = "aborted"
       ELSE /\ log' = log \o << [text |-> "Central/Eastern/Pacific/India: ", arg |-> zone_str],
                                [text |-> "Section: ", arg |-> section[2]],
                                [text |-> "Weather: ", arg |-> weather],
                                [text |-> "Tasks loaded: ",
                                 arg |-> [k \in 1..Len(CATEGORIES) |->
                                            Len(bh_tasks[CATEGORIES[k]])]] >>
            /\ pc' = "render"
    /\ FetchFrameUnchanged
    /\ UNCHANGED <<exc, bh_tasks, weather, wall_clock, ticks, zone_time, zone_str,
                   section, page, files>>

EmptyPage ==
    [weather |-> <<>>, pacific_str |-> <<>>, central_str |-> <<>>, eastern_str |-> <<>>,
     india_str |-> <<>>, section_text |-> <<>>, progress_html |-> <<>>,
     vdpam_html |-> <<>>, vdl_html |-> <<>>, personal_html |-> <<>>, updated |-> <<>>]

\* the document: the fields the template interpolates (the date line is left out)
Document(t, w, zs, sec) ==
    [weather |-> w,
     pacific_str |-> zs["Pacific"], central_str |-> zs["Central"],
     eastern_str |-> zs["Eastern"], india_str |-> zs["India"],
     section_text |-> sec[2],
     progress_html |-> render_progress_bar(sec[1]),
     vdpam_html |-> render_tasks(Get(t, CATEGORIES[1], <<>>)),
     vdl_html |-> render_tasks(Get(t, CATEGORIES[2], <<>>)),
     personal_html |-> render_tasks(Get(t, CATEGORIES[3], <<>>)),
     updated |-> zs["Central"]]

\* the three render_tasks calls, render_progress_bar and the template
Render ==
    /\ pc = "render"
    /\ page' = Document(bh_tasks, weather, zone_str, section)
    /\ pc' = "write"
    /\ FetchFrameUnchanged
    /\ UNCHANGED <<exc, bh_tasks, weather, wall_clock, ticks, zone_time, zone_str,
                   section, files, log>>

\* open("index.html", "w"), f.write(html), and the closing print
WriteFile ==
    /\ pc = "write"
    /\ files' = Append(files, page)
    /\ log' = Append(log, [text |-> "index.html generated successfully!", arg |-> <<>>])
    /\ pc' = "done"
    /\ FetchFrameUnchanged
    /\ UNCHANGED <<exc, bh_tasks, weather, wall_clock, ticks, zone_time, zone_str,
                   section, page>>

----------------------------------------------------------------------------
(* One run of build_html *)

Init ==
    /\ pc = "start"
    /\ exc = NoExc
    /\ all_rows = <<>>
    /\ tasks = EmptyDict
    /\ main_tasks = EmptyDict
    /\ heap = EmptyDict
    /\ idx = 0
    /\ bh_tasks = EmptyDict
    /\ weather = <<>>
    /\ wall_clock = -1
    /\ ticks = 0
    /\ zone_time = EmptyDict
    /\ zone_str = EmptyDict
    /\ section = <<0, <<>>>>
    /\ page = EmptyPage
    /\ files = <<>>
    /\ log = <<>>

Next ==
    \/ PrintFetchingTasks
    \/ RequestTasks
    \/ FirstPassRow
    \/ FirstPassEnd
    \/ SecondPassRow
    \/ SecondPassEnd
    \/ ReturnTasks
    \/ ExceptTasks
    \/ RequestWeather
    \/ ExceptWeather
    \/ GetTimeForZone
    \/ FormatTimes
    \/ PrintSummary
    \/ Render
    \/ WriteFile

Spec == Init /\ [][Next]_vars

----------------------------------------------------------------------------
(* The time functions on every instant of a day and every configured zone *)

TimeInit ==
    /\ pc = "clock"
    /\ exc = NoExc
    /\ all_rows = <<>>
    /\ tasks = EmptyDict
    /\ main_tasks = EmptyDict
    /\ heap = EmptyDict
    /\ idx = 0
    /\ bh_tasks = EmptyDict
    /\ weather = <<>>
    /\ wall_clock \in 0..1439
    /\ ticks = 0
    /\ zone_time = EmptyDict
    /\ zone_str = EmptyDict
    /\ section = <<0, <<>>>>
    /\ page = EmptyPage
    /\ files = <<>>
    /\ log = <<>>

\* get_time_for_zone, format_time_short, get_section and render_progress_bar
\* applied to the instant and one zone
ZoneReading ==
    /\ pc = "clock"
    /\ \E z \in Range(Zones) :
         /\ zone_time' = Put(zone_time, z, get_time_for_zone(wall_clock, TIMEZONES[z]))
         /\ zone_str' = Put(zone_str, z, format_time_short(zone_time'[z]))
         /\ section' = get_section(HourOf(zone_time'[z]))
    /\ page' = [page EXCEPT !.section_text = section'[2],
                            !.progress_html = render_progress_bar(section'[1])]
    /\ pc' = "read"
    /\ FetchFrameUnchanged
    /\ UNCHANGED <<exc, bh_tasks, weather, wall_clock, ticks, files, log>>

TimeNext == ZoneReading

TimeSpec == TimeInit /\ [][TimeNext]_vars

----------------------------------------------------------------------------
(* What the claims speak of *)

\* fetch_tasks_from_sheet is about to hand a value to its caller
Returning == pc \in {"tasks_return", "tasks_except"}

\* the value it is about to hand over
PendingResult ==
    IF pc = "tasks_return" THEN ReturnValue(tasks, heap) ELSE FallbackTasks

\* fetch_tasks_from_sheet has returned to build_html
TasksReturned ==
    pc \in {"weather_print", "weather_except", "times", "format", "summary",
            "render", "write", "done"}

Present(field) == field # NoneValue

\* a row with a non-empty (stripped) task and an empty (stripped) parent
MainRow(row) ==
    /\ Present(row.task) /\ Strip(row.task) # <<>>
    /\ Present(row.parent) /\ Strip(row.parent) = <<>>

\* a row with a non-empty (stripped) parent
ChildRow(row) == Present(row.parent) /\ Strip(row.parent) # <<>>

\* a row with an empty (stripped) task
EmptyTaskRow(row) == Present(row.task) /\ Strip(row.task) = <<>>

RowCategoryIs(row, c) == Present(row.category) /\ Lower(Strip(row.category)) = c

RowDone(row) == Present(row.done) /\ Upper(Strip(row.done)) = <<"T","R","U","E">>

\* the indices of the main rows of category c among the first n rows, ascending
RECURSIVE MainRowsOf(_, _, _)
MainRowsOf(rows, c, n) ==
    IF n = 0 THEN <<>>
    ELSE IF MainRow(rows[n]) /\ RowCategoryIs(rows[n], c)
         THEN Append(MainRowsOf(rows, c, n - 1), n)
         ELSE MainRowsOf(rows, c, n - 1)

\* the subtasks the rows name for parent p among the first n rows, in row order
RECURSIVE ChildrenOf(_, _, _)
ChildrenOf(rows, p, n) ==
    IF n = 0 THEN <<>>
    ELSE IF ChildRow(rows[n]) /\ Strip(rows[n].parent) = p
         THEN Append(ChildrenOf(rows, p, n - 1),
                     [task |-> Strip(rows[n].task), done |-> RowDone(rows[n])])
         ELSE ChildrenOf(rows, p, n - 1)

\* the main rows named p
MainRowsNamed(rows, p) ==
    {k \in 1..Len(rows) : MainRow(rows[k]) /\ Strip(rows[k].task) = p}

Max(S) == CHOOSE x \in S : \A y \in S : y <= x

\* every row has all four fields
AllFieldsPresent(rows) ==
    \A k \in 1..Len(rows) :
        /\ Present(rows[k].category) /\ Present(rows[k].task)
        /\ Present(rows[k].parent) /\ Present(rows[k].done)

\* the buckets of result hold, in row order, exactly the main rows of their category
MainTasksPlaced(rows, result) ==
    /\ DOMAIN result = Range(CATEGORIES)
    /\ \A c \in Range(CATEGORIES) :
         LET expected == MainRowsOf(rows, c, Len(rows)) IN
         /\ Len(result[c]) = Len(expected)
         /\ \A k \in 1..Len(expected) :
              /\ result[c][k].task = Strip(rows[expected[k]].task)
              /\ result[c][k].done = RowDone(rows[expected[k]])

----------------------------------------------------------------------------
(* C1 *)

\* C1, as stated: for every list of rows, the value fetch_tasks_from_sheet
\* returns holds in each bucket exactly the main rows of that category, in
\* row order.
C1_EveryRowListPlaced == Returning => MainTasksPlaced(all_rows, PendingResult)

\* C1, amended: when every row has all four fields (so that no pass raises),
\* each bucket holds exactly the task objects of the main rows of its
\* category, each once and in row order; a main row of an unknown category is
\* in no bucket and no other row is in any.
C1_MainTasksPlacedWhenParsed ==
    pc = "tasks_return" =>
        /\ AllFieldsPresent(all_rows)
        /\ MainTasksPlaced(all_rows, ReturnValue(tasks, heap))
        /\ \A c \in Range(CATEGORIES) : tasks[c] = MainRowsOf(all_rows, c, Len(all_rows))

\* Two main rows of the same name and category, both in the bucket, in row order.
C1_Witness ==
    /\ pc = "tasks_return"
    /\ Len(all_rows) = 2
    /\ MainRow(all_rows[1]) /\ MainRow(all_rows[2])
    /\ Strip(all_rows[1].task) = Strip(all_rows[2].task)
    /\ all_rows[1].done # all_rows[2].done
    /\ RowCategoryIs(all_rows[1], CATEGORIES[2])
    /\ tasks[CATEGORIES[2]] = <<1, 2>>

----------------------------------------------------------------------------
(* C2 *)

\* C2: a row whose task is empty never appears in the returned value, neither
\* as a main task nor as a subtask: no returned task or subtask has an empty name.
C2_EmptyTaskNeverAppears ==
    Returning =>
        \A c \in DOMAIN PendingResult :
            \A k \in 1..Len(PendingResult[c]) :
                /\ PendingResult[c][k].task # <<>>
                /\ \A j \in 1..Len(PendingResult[c][k].subtasks) :
                       PendingResult[c][k].subtasks[j].task # <<>>

----------------------------------------------------------------------------
(* C3 *)

\* the subtasks the task object of row r must hold when all rows are attached
ExpectedSubtasks(rows, r) ==
    IF r = Max(MainRowsNamed(rows, Strip(rows[r].task)))
    THEN ChildrenOf(rows, Strip(rows[r].task), Len(rows))
    ELSE <<>>

\* the task objects the returned buckets hold for main rows named p
ReturnedNamed(result, p) ==
    UNION { {<<c, k>> : k \in {j \in 1..Len(result[c]) : result[c][j].task = p}} :
              c \in Range(CATEGORIES) }

----------------------------------------------------------------------------
(* C4 *)

\* C4: on every return path of fetch_tasks_from_sheet the returned mapping has
\* exactly the keys vdpam, vdl and personal, both as it is handed over and as
\* build_html holds it afterwards.
C4_ExactlyTheCategoryKeys ==
    /\ Returning => DOMAIN PendingResult = Range(CATEGORIES)
    /\ TasksReturned => DOMAIN bh_tasks = Range(CATEGORIES)

\* A parsed list with a main row of an unknown category, about to be returned.
C4_Witness ==
    /\ pc = "tasks_return"
    /\ \E k \in 1..Len(all_rows) :
         /\ MainRow(all_rows[k])
         /\ \A c \in Range(CATEGORIES) : ~RowCategoryIs(all_rows[k], c)

----------------------------------------------------------------------------
(* C5 *)

ErrorLine(text, e) == [text |-> text, arg |-> e]

\* C5: whenever an exception is in flight in a fetcher, the next step returns
\* to build_html with an error line printed and exactly the fallback as the
\* value (an empty list for each category, or "N/A"), and no step ever leaves
\* build_html by an exception.
C5_ErrorGivesFallback ==
    [][ /\ pc = "tasks_except" =>
             /\ pc' = "weather_print"
             /\ bh_tasks' = [c \in Range(CATEGORIES) |-> <<>>]
             /\ log' = Append(log, ErrorLine("Error fetching tasks: ", exc))
        /\ pc = "weather_except" =>
             /\ pc' = "times"
             /\ weather' = <<"N","/","A">>
             /\ log' = Append(log, ErrorLine("Error fetching weather: ", exc))
        /\ pc' # "aborted" ]_vars

\* An error raised midway through the first pass, a bucket already filled.
C5_Witness ==
    /\ pc = "tasks_except"
    /\ exc = "AttributeError"
    /\ \E c \in DOMAIN tasks : tasks[c] # <<>>

----------------------------------------------------------------------------
(* C6 *)

\* the step of the pipeline a position belongs to: fetch tasks, fetch weather,
\* times and progress, render, write, finished
Stage(p) ==
    CASE p \in {"start", "tasks_request", "first_pass", "second_pass",
                "tasks_return", "tasks_except"} -> 1
      [] p \in {"weather_print", "weather_except"} -> 2
      [] p \in {"times", "format"} -> 3
      [] p \in {"summary", "render"} -> 4
      [] p = "write" -> 5
      [] p = "done" -> 6
      [] OTHER -> 0

Logged(text) == \E k \in 1..Len(log) : log[k].text = text

OnePlaceholder(column) == Len(column) = 1 /\ column[1].text = NoTasks

\* what holds of a finished run: index.html was written once, it holds the
\* page, and the page shows the fallbacks of the fetches that failed
FinishedRun ==
    /\ Len(files) = 1
    /\ files[1] = page
    /\ Logged("Fetching tasks from Google Sheets...")
    /\ Logged("Fetching weather...")
    /\ Logged("Error fetching tasks: ") =>
         /\ OnePlaceholder(files[1].vdpam_html)
         /\ OnePlaceholder(files[1].vdl_html)
         /\ OnePlaceholder(files[1].personal_html)
    /\ Logged("Error fetching weather: ") => files[1].weather = <<"N","/","A">>

\* C6: no step of the run aborts it, whatever the fetches did; the steps
\* follow one another in the order fetch tasks, fetch weather, times and
\* progress, render, write; nothing is written before the write step, which
\* writes index.html once and finishes the run; after a failed task fetch each
\* column of the written page is one "No tasks" row, and after a failed
\* weather fetch its weather field is "N/A".
C6_RunDegradesInOrder ==
    [][ /\ pc' # "aborted"
        /\ Stage(pc') \in {Stage(pc), Stage(pc) + 1}
        /\ pc' # "done" => files' = <<>>
        /\ pc' = "done" => pc = "write" /\ FinishedRun' ]_vars

\* A finished run in which both fetches failed.
C6_Witness ==
    /\ pc = "done"
    /\ Logged("Error fetching tasks: ")
    /\ Logged("Error fetching weather: ")
    /\ Len(files) = 1

----------------------------------------------------------------------------
(* C10 *)

\* C10: the four clocks of the written page are the local times of one and
\* the same UTC instant.
C10_OneInstant ==
    pc = "done" =>
        \E u \in (wall_clock - ticks)..wall_clock :
            /\ files[1].central_str = format_time_short(LocalTime(u, TIMEZONES["Central"]))
            /\ files[1].eastern_str = format_time_short(LocalTime(u, TIMEZONES["Eastern"]))
            /\ files[1].pacific_str = format_time_short(LocalTime(u, TIMEZONES["Pacific"]))
            /\ files[1].india_str = format_time_short(LocalTime(u, TIMEZONES["India"]))

----------------------------------------------------------------------------
(* C7, C8, C9: under TimeSpec *)

\* the zone of the reading
ZoneRead == CHOOSE z \in DOMAIN zone_time : TRUE

\* the configured offsets in minutes
MinutesEastOfUtc == [Central |-> -360, Eastern |-> -300, Pacific |-> -480, India |-> 330]

\* the local minute of the day of the reading, by wrapping around midnight
LocalMinuteOfDay == (wall_clock + MinutesEastOfUtc[ZoneRead] + 1440) % 1440

\* the hour get_section was given
HourRead == HourOf(zone_time[ZoneRead])

OneToTwelve ==
    << <<"1">>, <<"2">>, <<"3">>, <<"4">>, <<"5">>, <<"6">>, <<"7">>, <<"8">>,
       <<"9">>, <<"1","0">>, <<"1","1">>, <<"1","2">> >>

SectionOf12(k) ==
    <<"S","e","c","t","i","o","n"," ">> \o OneToTwelve[k]
        \o <<" ","o","f"," ","1","2">>

\* C7: for the hour h of the reading, get_section gave (0, "Before Day") when
\* h < 6, (12, "Day Complete") when h >= 18 and (h - 5, "Section h-5 of 12")
\* otherwise; the index lies in 0..12 and no later hour of the day has a
\* smaller one.
C7_SectionOfHour ==
    pc = "read" =>
        /\ HourRead \in 0..23
        /\ HourRead < 6 => section = <<0, <<"B","e","f","o","r","e"," ","D","a","y">>>>
        /\ HourRead >= 18 =>
               section = <<12, <<"D","a","y"," ","C","o","m","p","l","e","t","e">>>>
        /\ HourRead \in 6..17 => section = <<HourRead - 5, SectionOf12(HourRead - 5)>>
        /\ section[1] \in 0..TOTAL_SECTIONS
        /\ \A later \in HourRead..23 : get_section(later)[1] >= section[1]

\* The last hour of the day window: section(17) = (12, "Section 12 of 12").
C7_Witness ==
    /\ pc = "read"
    /\ HourRead = 17
    /\ section = <<12, <<"S","e","c","t","i","o","n"," ","1","2"," ","o","f"," ","1","2">>>>

C9_ProgressBar ==
    pc = "read" =>
        /\ Len(page.progress_html) = 12
        /\ \A i \in 1..12 :
             page.progress_html[i] = (IF i <= section[1] THEN "filled" ELSE "empty")
        /\ Cardinality({i \in 1..12 : page.progress_html[i] = "filled"})
             = (IF HourRead < 6 THEN 0 ELSE IF HourRead >= 18 THEN 12 ELSE HourRead - 5)

\* The first section of the day: one box filled, eleven empty.
C9_Witness ==
    /\ pc = "read"
    /\ HourRead = 6
    /\ page.progress_html[1] = "filled"
    /\ \A i \in 2..12 : page.progress_html[i] = "empty"

====
